---- MODULE Spec2Model ----
(***************************************************************************)
(* MarqueeSelection (src/src/index.ts): a Container with four TilingSprite *)
(* edge strips sharing one dash Texture, animated by update(), which the   *)
(* shared Ticker calls once per frame while autoUpdate is on.              *)
(*                                                                         *)
(* Numbers.  Every number the model draws is an integer.  JavaScript       *)
(* number arithmetic (+, unary -, *, %) is exact on integers of this size, *)
(* so the model computes what the code computes on these inputs.  A speed  *)
(* of 0.2 against a period of 8 appears as speed 2 against the period 8:   *)
(* the sign behaviour of % is the same.                                    *)
(***************************************************************************)
EXTENDS Integers, Sequences, FiniteSets, TLC

VARIABLES
    thickness,      \* readonly field, line 67
    dash,           \* readonly field, line 69
    dashSpace,      \* readonly field, line 71
    speed,          \* readonly field, line 73
    _topLine,       \* reference to a TilingSprite, or Undefined
    _leftLine,
    _rightLine,
    _bottomLine,
    _texture,       \* reference to the Texture, or Undefined
    _autoUpdate,
    _currentTime,
    visible,        \* Container.visible
    destroyed,      \* Container.destroyed
    children,       \* Container.children
    sprites,        \* the TilingSprite objects ever created, by identity
    textures,       \* the Texture objects ever created, by identity
    ticker,         \* Ticker.shared: its listeners, in order of registration
    updates,        \* history: update() calls that ran with visible = true
    lastOp          \* history: the last operation, its arguments, whether it threw

vars == <<thickness, dash, dashSpace, speed, _topLine, _leftLine, _rightLine,
          _bottomLine, _texture, _autoUpdate, _currentTime, visible, destroyed,
          children, sprites, textures, ticker, updates, lastOp>>

\* The fields the constructor sets once and nothing assigns afterwards.
options == <<thickness, dash, dashSpace, speed>>

\* The five references destroy() overwrites with undefined.
refs == <<_topLine, _leftLine, _rightLine, _bottomLine, _texture>>

----------------------------------------------------------------------------
\* Bounds of the model.

\* update() calls with visible = true that a behaviour may hold.
MaxUpdates == 4

\* Inputs.
Thicknesses == {0, 2}
Dashes      == {2, 4}
DashSpaces  == {2, 4}
Speeds      == {-3, 2}
Widths      == {0, 100}
Heights     == {0, 50}

----------------------------------------------------------------------------
\* Values.

Undefined == "undefined"

\* The value of an operation that returned / that threw a TypeError.
Op(name, args, threw) == [name |-> name, args |-> args, threw |-> threw]

\* JavaScript's a % n for n > 0: the remainder of the truncated division, with
\* the sign of the dividend a.
JsRem(a, n) == IF a >= 0 THEN a % n ELSE -((-a) % n)

\* new TilingSprite({roundPixels, texture, width, height}): position (0, 0),
\* tilePosition (0, 0), not destroyed.
NewTilingSprite(texture, width, height) ==
    [texture |-> texture, x |-> 0, y |-> 0, width |-> width, height |-> height,
     tileX |-> 0, tileY |-> 0, destroyed |-> 0]

\* The dash texture: a canvas of (dash + dashSpace) squared, of which the square
\* [0, dash) x [0, dash) is filled, sampled with scaleMode 'nearest'.
NewTexture(d, ds) ==
    [size |-> d + ds, filled |-> d, scaleMode |-> "nearest", destroyed |-> 0]

\* The listener (this.update, this) of the node on the ticker.
UpdateListener == [fn |-> "update", context |-> "this"]

\* A listener of the host application on the same shared ticker.
RenderListener == [fn |-> "render", context |-> "app"]

----------------------------------------------------------------------------
\* Property writes through the node's references.

\* obj with the fields of set overwritten.
Put(obj, set) ==
    [f \in DOMAIN obj |-> IF f \in DOMAIN set THEN set[f] ELSE obj[f]]

\* Assign with every access guarded (this._topLine?.position): an undefined
\* reference is skipped and nothing throws.
RECURSIVE AssignGuarded(_, _)
AssignGuarded(sp, writes) ==
    IF writes = <<>>
    THEN [sprites |-> sp, threw |-> FALSE]
    ELSE LET w == Head(writes) IN
         IF w.ref = Undefined
         THEN AssignGuarded(sp, Tail(writes))
         ELSE AssignGuarded([sp EXCEPT ![w.ref] = Put(@, w.set)], Tail(writes))

\* The assignments of writes, in order, on the sprites sp.  An assignment through
\* a reference that is undefined throws a TypeError: the assignments before it
\* stay, the ones after it never run.
RECURSIVE Assign(_, _)
Assign(sp, writes) ==
    IF writes = <<>>
    THEN [sprites |-> sp, threw |-> FALSE]
    ELSE LET w == Head(writes) IN
         IF w.ref = Undefined
         THEN [sprites |-> sp, threw |-> TRUE]
         ELSE Assign([sp EXCEPT ![w.ref] = Put(@, w.set)], Tail(writes))

\* resizeWrites with the strips as long as the inner box only (width + l).
resizeWritesInner(width, height) ==
    LET l == thickness IN
    << [ref |-> _topLine,    set |-> [x |-> -l, y |-> -l]],
       [ref |-> _leftLine,   set |-> [x |-> -l, y |-> 0]],
       [ref |-> _rightLine,  set |-> [x |-> width, y |-> 0]],
       [ref |-> _bottomLine, set |-> [x |-> -l, y |-> height]],
       [ref |-> _topLine,    set |-> [width |-> width + l]],
       [ref |-> _bottomLine, set |-> [width |-> width + l]],
       [ref |-> _leftLine,   set |-> [height |-> height]],
       [ref |-> _rightLine,  set |-> [height |-> height]] >>

\* resizeWrites that sets the height of the top and bottom strips as well.
resizeWritesBothSizes(width, height) ==
    LET l == thickness IN
    << [ref |-> _topLine,    set |-> [x |-> -l, y |-> -l]],
       [ref |-> _leftLine,   set |-> [x |-> -l, y |-> 0]],
       [ref |-> _rightLine,  set |-> [x |-> width, y |-> 0]],
       [ref |-> _bottomLine, set |-> [x |-> -l, y |-> height]],
       [ref |-> _topLine,    set |-> [width |-> width + l * 2, height |-> height]],
       [ref |-> _bottomLine, set |-> [width |-> width + l * 2, height |-> height]],
       [ref |-> _leftLine,   set |-> [height |-> height]],
       [ref |-> _rightLine,  set |-> [height |-> height]] >>

\* The assignments of resize(width, height), lines 165-175.
resizeWrites(width, height) ==
    LET l == thickness IN
    << [ref |-> _topLine,    set |-> [x |-> -l, y |-> -l]],
       [ref |-> _leftLine,   set |-> [x |-> -l, y |-> 0]],
       [ref |-> _rightLine,  set |-> [x |-> width, y |-> 0]],
       [ref |-> _bottomLine, set |-> [x |-> -l, y |-> height]],
       [ref |-> _topLine,    set |-> [width |-> width + l * 2]],
       [ref |-> _bottomLine, set |-> [width |-> width + l * 2]],
       [ref |-> _leftLine,   set |-> [height |-> height]],
       [ref |-> _rightLine,  set |-> [height |-> height]] >>

\* updateWrites with the residue in [0, size) in place of JavaScript's %.
updateWritesResidue(t) ==
    LET size == dash + dashSpace IN
    << [ref |-> _topLine,    set |-> [tileX |-> t % size]],
       [ref |-> _bottomLine, set |-> [tileX |-> (-t) % size]],
       [ref |-> _leftLine,   set |-> [tileY |-> (-t) % size]],
       [ref |-> _rightLine,  set |-> [tileY |-> t % size]] >>

\* updateWrites with the left and right strips moved along x, like the others.
updateWritesAllX(t) ==
    LET size == dash + dashSpace IN
    << [ref |-> _topLine,    set |-> [tileX |-> JsRem(t, size)]],
       [ref |-> _bottomLine, set |-> [tileX |-> JsRem(-t, size)]],
       [ref |-> _leftLine,   set |-> [tileX |-> JsRem(-t, size)]],
       [ref |-> _rightLine,  set |-> [tileX |-> JsRem(t, size)]] >>

\* The assignments of update() once _currentTime is t, lines 188-195.
updateWrites(t) ==
    LET size == dash + dashSpace IN
    << [ref |-> _topLine,    set |-> [tileX |-> JsRem(t, size)]],
       [ref |-> _bottomLine, set |-> [tileX |-> JsRem(-t, size)]],
       [ref |-> _leftLine,   set |-> [tileY |-> JsRem(-t, size)]],
       [ref |-> _rightLine,  set |-> [tileY |-> JsRem(t, size)]] >>

\* update() without the test of visible.
updateAlways(time, sp) ==
    LET t == time + speed
        r == Assign(sp, updateWrites(t))
    IN  [time |-> t, sprites |-> r.sprites, threw |-> r.threw, ran |-> 1]

\* update() that keeps the stored time below the period.
updateWrapping(time, sp) ==
    IF visible
    THEN LET t == JsRem(time + speed, dash + dashSpace)
             r == Assign(sp, updateWrites(t))
         IN  [time |-> t, sprites |-> r.sprites, threw |-> r.threw, ran |-> 1]
    ELSE [time |-> time, sprites |-> sp, threw |-> FALSE, ran |-> 0]

\* update() from the time and the sprites given: the time and the sprites after
\* it, whether it threw, and whether it ran its visible branch (ran is 1 or 0).
update(time, sp) ==
    IF visible
    THEN LET t == time + speed
             r == Assign(sp, updateWrites(t))
         IN  [time |-> t, sprites |-> r.sprites, threw |-> r.threw, ran |-> 1]
    ELSE [time |-> time, sprites |-> sp, threw |-> FALSE, ran |-> 0]

----------------------------------------------------------------------------
\* Ticker.shared.

\* Ticker.remove(fn, context): every listener matching both is removed.
TickerRemove(tk, l) == SelectSeq(tk, LAMBDA x : x # l)

\* Ticker.add(fn, context): one more listener, after the registered ones.
TickerAdd(tk, l) == Append(tk, l)

\* The setter without its unconditional remove: it adds when value is true and
\* removes when it is false.
autoUpdateTickerNoRemove(tk, value) ==
    IF value
    THEN TickerAdd(tk, UpdateListener)
    ELSE TickerRemove(tk, UpdateListener)

\* The ticker after the autoUpdate setter has run with value, lines 207-211.
autoUpdateTicker(tk, value) ==
    IF value
    THEN TickerAdd(TickerRemove(tk, UpdateListener), UpdateListener)
    ELSE TickerRemove(tk, UpdateListener)

\* One frame: the listeners ls are called in order.  calls counts the calls of
\* this node's update, ran those that ran its visible branch.  An update that
\* throws ends the frame: the error leaves the ticker's loop.
RECURSIVE Emit(_, _, _)
Emit(ls, time, sp) ==
    IF ls = <<>>
    THEN [time |-> time, sprites |-> sp, threw |-> FALSE, calls |-> 0, ran |-> 0]
    ELSE IF Head(ls) # UpdateListener
    THEN Emit(Tail(ls), time, sp)
    ELSE LET r == update(time, sp) IN
         IF r.threw
         THEN [time |-> r.time, sprites |-> r.sprites, threw |-> TRUE,
               calls |-> 1, ran |-> r.ran]
         ELSE LET rest == Emit(Tail(ls), r.time, r.sprites) IN
              [time |-> rest.time, sprites |-> rest.sprites, threw |-> rest.threw,
               calls |-> 1 + rest.calls, ran |-> r.ran + rest.ran]

\* The number of registrations of this node's update on the shared ticker.
Registrations == Len(SelectSeq(ticker, LAMBDA x : x = UpdateListener))

----------------------------------------------------------------------------
\* Construction.

\* new MarqueeSelection({thickness, dash, dashSpace, speed, width, height,
\* autoUpdate, visible}): the state when the constructor returns.  visible is
\* one of the ContainerOptions passed on to super(rest).
Construct(t, d, ds, s, width, height, auto, vis) ==
    /\ thickness = t
    /\ dash = d
    /\ dashSpace = ds
    /\ speed = s
    /\ visible = vis
    /\ destroyed = FALSE
    /\ _currentTime = 0
    /\ _texture = "texture"
    /\ textures = [id \in {"texture"} |-> NewTexture(d, ds)]
    /\ _topLine = "top"
    /\ _leftLine = "left"
    /\ _rightLine = "right"
    /\ _bottomLine = "bottom"
    /\ sprites =
         Assign([id \in {"top", "left", "right", "bottom"} |->
                    IF id \in {"top", "bottom"}
                    THEN NewTilingSprite("texture", width, t)
                    ELSE NewTilingSprite("texture", t, height)],
                resizeWrites(width, height)).sprites
    /\ children = <<"top", "left", "right", "bottom">>
    /\ _autoUpdate = auto
    /\ ticker = autoUpdateTicker(<<RenderListener>>, auto)
    /\ updates = 0
    /\ lastOp = Op("new", <<width, height>>, FALSE)

Init ==
    \E t \in Thicknesses, d \in Dashes, ds \in DashSpaces, s \in Speeds,
       width \in Widths, height \in Heights, auto \in BOOLEAN, vis \in BOOLEAN :
        Construct(t, d, ds, s, width, height, auto, vis)

----------------------------------------------------------------------------
\* Operations.

\* resize(width, height), lines 163-176.
Resize(width, height) ==
    LET r == Assign(sprites, resizeWrites(width, height)) IN
    /\ sprites' = r.sprites
    /\ lastOp' = Op("resize", <<width, height>>, r.threw)
    /\ UNCHANGED <<options, refs, _autoUpdate, _currentTime, visible, destroyed,
                   children, textures, ticker, updates>>

\* update() called by the owner, lines 183-197.
Update ==
    LET r == update(_currentTime, sprites) IN
    /\ updates + r.ran <= MaxUpdates
    /\ _currentTime' = r.time
    /\ sprites' = r.sprites
    /\ updates' = updates + r.ran
    /\ lastOp' = Op("update", <<>>, r.threw)
    /\ UNCHANGED <<options, refs, _autoUpdate, visible, destroyed, children,
                   textures, ticker>>

\* One frame of Ticker.shared: every registered listener is called.
Tick ==
    LET r == Emit(ticker, _currentTime, sprites) IN
    /\ updates + r.ran <= MaxUpdates
    /\ _currentTime' = r.time
    /\ sprites' = r.sprites
    /\ updates' = updates + r.ran
    /\ lastOp' = Op("tick", <<r.calls>>, r.threw)
    /\ UNCHANGED <<options, refs, _autoUpdate, visible, destroyed, children,
                   textures, ticker>>

\* autoUpdate = value, lines 204-212.
SetAutoUpdate(value) ==
    /\ _autoUpdate' = value
    /\ ticker' = autoUpdateTicker(ticker, value)
    /\ lastOp' = Op("autoUpdate", <<value>>, FALSE)
    /\ UNCHANGED <<options, refs, _currentTime, visible, destroyed, children,
                   sprites, textures, updates>>

\* visible = value, by the owner of the node: the flag update() reads, line 185.
SetVisible(value) ==
    /\ visible' = value
    /\ lastOp' = Op("visible", <<value>>, FALSE)
    /\ UNCHANGED <<options, refs, _autoUpdate, _currentTime, destroyed, children,
                   sprites, textures, ticker, updates>>

\* The four TilingSprite.destroy() calls of lines 219-222, through the references
\* rs in order: each marks its sprite destroyed once more; the first reference
\* that is undefined throws.
RECURSIVE DestroySprites(_, _)
DestroySprites(sp, rs) ==
    IF rs = <<>>
    THEN [sprites |-> sp, threw |-> FALSE]
    ELSE IF Head(rs) = Undefined
    THEN [sprites |-> sp, threw |-> TRUE]
    ELSE DestroySprites([sp EXCEPT ![Head(rs)].destroyed = @ + 1], Tail(rs))

\* destroy() without the Object.assign: the references stay.
KeepRefs == UNCHANGED refs

\* Object.assign(this, {_topLine: undefined, ...}), lines 226-232.
NullRefs ==
    /\ _topLine' = Undefined
    /\ _leftLine' = Undefined
    /\ _rightLine' = Undefined
    /\ _bottomLine' = Undefined
    /\ _texture' = Undefined

\* destroy(), lines 217-233.  super.destroy(true) is Container.destroy: it marks
\* the node destroyed; the children were removed the line before, and it does
\* not know of the ticker.
Destroy ==
    LET r == DestroySprites(sprites,
                            <<_topLine, _leftLine, _rightLine, _bottomLine>>)
        threw == r.threw \/ _texture = Undefined
    IN
    /\ sprites' = r.sprites
    /\ lastOp' = Op("destroy", <<>>, threw)
    /\ IF threw
       THEN UNCHANGED <<refs, textures, children, destroyed>>
       ELSE /\ textures' = [textures EXCEPT ![_texture].destroyed = @ + 1]
            /\ children' = <<>>
            /\ destroyed' = TRUE
            /\ NullRefs
    /\ UNCHANGED <<options, _autoUpdate, _currentTime, visible, ticker, updates>>

Next ==
    \/ \E width \in Widths, height \in Heights : Resize(width, height)
    \/ Update
    \/ Tick
    \/ \E value \in BOOLEAN : SetAutoUpdate(value)
    \/ \E value \in BOOLEAN : SetVisible(value)
    \/ Destroy

Spec == Init /\ [][Next]_vars

----------------------------------------------------------------------------
\* Properties.

\* The four strips, by identity (the references are undefined after destroy()).
Top    == sprites["top"]
Left   == sprites["left"]
Right  == sprites["right"]
Bottom == sprites["bottom"]

Period == dash + dashSpace

\* The last operation called update(): the owner did, or a frame of the ticker.
CalledUpdate(op) ==
    \/ op.name = "update"
    \/ op.name = "tick" /\ op.args # <<0>>

\* The fields of a strip that neither resize() nor update() may touch.
SameIdentity(a, b) == a.texture = b.texture /\ a.destroyed = b.destroyed

SameGeometry(a, b) ==
    a.x = b.x /\ a.y = b.y /\ a.width = b.width /\ a.height = b.height

SameOffsets(a, b) == a.tileX = b.tileX /\ a.tileY = b.tileY

\* C1: after destroy() the shared ticker no longer calls this node's update: a
\* frame after destroy() calls update zero times, throws nothing and leaves
\* _currentTime and the strips as they were.
C1_NoUpdateAfterDestroy ==
    [][(destroyed /\ lastOp'.name = "tick")
        => /\ lastOp'.args = <<0>>
           /\ ~lastOp'.threw
           /\ _currentTime' = _currentTime
           /\ sprites' = sprites]_vars

\* C2: update is registered on the shared ticker exactly once while autoUpdate is
\* true and not at all while it is false, whatever was assigned to autoUpdate and
\* how often; so a frame calls update once or never, and moves the _currentTime
\* of a visible node by speed or leaves it.
C2_RegisteredOnceIffAutoUpdate ==
    /\ Registrations = (IF _autoUpdate THEN 1 ELSE 0)
    /\ [][/\ Registrations' = (IF _autoUpdate' THEN 1 ELSE 0)
          /\ lastOp'.name = "tick"
               => /\ lastOp'.args = <<IF _autoUpdate THEN 1 ELSE 0>>
                  /\ visible =>
                       _currentTime' =
                         _currentTime + (IF _autoUpdate THEN speed ELSE 0)]_vars

C2_Witness ==
    /\ lastOp = Op("autoUpdate", <<TRUE>>, FALSE)
    /\ Registrations = 1
    /\ updates > 0
    /\ ~destroyed

\* C3 as stated: after an update() of a visible node the offsets are the
\* residues in [0, period) of t and of -t, for t the new _currentTime.
C3_OffsetsAreResidues ==
    (CalledUpdate(lastOp) /\ ~lastOp.threw /\ visible)
        => /\ Top.tileX = _currentTime % Period
           /\ Right.tileY = _currentTime % Period
           /\ Bottom.tileX = (-_currentTime) % Period
           /\ Left.tileY = (-_currentTime) % Period

\* C3 as amended: after an update() of a visible node the offsets are the
\* remainders of the truncated division, which carry the sign of the dividend:
\* for t >= 0 the top and right offsets are t mod period and the bottom and left
\* ones are -(t mod period), in (-period, 0]; for t < 0 the top and right ones
\* are -(-t mod period) and the bottom and left ones are -t mod period.
C3_OffsetsAreSignedRemainders ==
    (CalledUpdate(lastOp) /\ ~lastOp.threw /\ visible)
        => LET t == _currentTime
               forward  == IF t >= 0 THEN t % Period ELSE -((-t) % Period)
               backward == IF t >= 0 THEN -(t % Period) ELSE (-t) % Period
           IN  /\ Top.tileX = forward
               /\ Right.tileY = forward
               /\ Bottom.tileX = backward
               /\ Left.tileY = backward

C3_Witness ==
    /\ lastOp = Op("update", <<>>, FALSE)
    /\ visible
    /\ speed = 2
    /\ Period = 8
    /\ updates = 1
    /\ Top.tileX = 2
    /\ Bottom.tileX = -2

\* C4: _currentTime is speed times the number of update() calls that ran while
\* the node was visible, never reduced modulo the period.
C4_TimeIsSpeedTimesUpdates == _currentTime = speed * updates

C4_Witness ==
    /\ updates >= 3
    /\ _currentTime > Period
    /\ lastOp.name = "resize"
    /\ ~_autoUpdate

\* C5: update() on a hidden node, called by the owner or by a frame, changes
\* neither _currentTime nor any strip; showing or hiding the node changes
\* neither, so the animation continues from where it stood.
C5_HiddenUpdateIsNoOp ==
    [][/\ (CalledUpdate(lastOp') /\ ~visible)
            => (_currentTime' = _currentTime /\ sprites' = sprites)
       /\ lastOp'.name = "visible"
            => (_currentTime' = _currentTime /\ sprites' = sprites)]_vars

C5_Witness ==
    /\ lastOp = Op("tick", <<1>>, FALSE)
    /\ ~visible
    /\ ~destroyed
    /\ updates > 0
    /\ _currentTime # 0

\* C6: right after construction with (width, height) and after every
\* resize(width, height), with t the thickness: top at (-t, -t) of size
\* (width + 2t) x t, bottom at (-t, height) of the same size, left at (-t, 0) of
\* size t x height, right at (width, 0) of size t x height; the outer box runs
\* from (-t, -t) to (width + t, height + t).
C6_StripGeometry ==
    (lastOp.name \in {"new", "resize"} /\ ~lastOp.threw)
        => LET width == lastOp.args[1]
               height == lastOp.args[2]
               t == thickness
               box(x, y, w, h) == [x |-> x, y |-> y, width |-> w, height |-> h]
           IN  /\ SameGeometry(Top, box(-t, -t, width + 2 * t, t))
               /\ SameGeometry(Bottom, box(-t, height, width + 2 * t, t))
               /\ SameGeometry(Left, box(-t, 0, t, height))
               /\ SameGeometry(Right, box(width, 0, t, height))
               /\ Bottom.y + Bottom.height = height + t
               /\ Right.x + Right.width = width + t

C6_Witness ==
    /\ lastOp = Op("resize", <<0, 50>>, FALSE)
    /\ thickness = 2
    /\ updates > 0
    /\ Top.width = 4

\* C7 as stated: every method called after destroy() throws and leaves the
\* registration on the ticker as it was.
C7_EveryMethodThrowsAfterDestroy ==
    [][(destroyed /\ lastOp'.name \in {"resize", "update", "autoUpdate", "destroy"})
        => (lastOp'.threw /\ ticker' = ticker)]_vars

\* C7 as amended: after destroy(), resize() and destroy() throw and change
\* nothing; update() on a visible node throws after it has added speed to
\* _currentTime, and changes nothing else; update() on a hidden node returns
\* and changes nothing; the autoUpdate setter returns, and leaves update
\* registered once if its value is true and not at all if it is false.
C7_AfterDestroy ==
    [][destroyed =>
        /\ lastOp'.name \in {"resize", "destroy"}
             => /\ lastOp'.threw
                /\ UNCHANGED <<options, refs, _autoUpdate, _currentTime, visible,
                               destroyed, children, sprites, textures, ticker>>
        /\ (lastOp'.name = "update" /\ visible)
             => /\ lastOp'.threw
                /\ _currentTime' = _currentTime + speed
                /\ UNCHANGED <<options, refs, _autoUpdate, visible, destroyed,
                               children, sprites, textures, ticker>>
        /\ (lastOp'.name = "update" /\ ~visible)
             => /\ ~lastOp'.threw
                /\ UNCHANGED <<options, refs, _autoUpdate, _currentTime, visible,
                               destroyed, children, sprites, textures, ticker>>
        /\ lastOp'.name = "autoUpdate"
             => /\ ~lastOp'.threw
                /\ _autoUpdate' = lastOp'.args[1]
                /\ Registrations' = (IF lastOp'.args[1] THEN 1 ELSE 0)]_vars

C7_Witness ==
    /\ destroyed
    /\ lastOp = Op("autoUpdate", <<TRUE>>, FALSE)
    /\ Registrations = 1
    /\ _topLine = Undefined

\* C8: the texture and the four strips are the objects the constructor created
\* and no others; none is destroyed before destroy() has completed, each is
\* destroyed exactly once from then on, whatever is called afterwards.
C8_CreatedOnceDestroyedOnce ==
    /\ DOMAIN sprites = {"top", "left", "right", "bottom"}
    /\ DOMAIN textures = {"texture"}
    /\ \A id \in DOMAIN sprites :
         sprites[id].destroyed = (IF destroyed THEN 1 ELSE 0)
    /\ \A id \in DOMAIN textures :
         textures[id].destroyed = (IF destroyed THEN 1 ELSE 0)

C8_Witness ==
    /\ destroyed
    /\ lastOp = Op("destroy", <<>>, TRUE)
    /\ Top.destroyed = 1
    /\ textures["texture"].destroyed = 1

\* C9: resize() changes positions, the widths of top and bottom and the heights
\* of left and right, and nothing else: not _currentTime, the offsets, the
\* texture, the strips' identity or number, the options, autoUpdate or the
\* registration on the ticker.
C9_ResizeFrame ==
    [][lastOp'.name = "resize" =>
        /\ UNCHANGED <<options, refs, _autoUpdate, _currentTime, visible,
                       destroyed, children, textures, ticker>>
        /\ DOMAIN sprites' = DOMAIN sprites
        /\ \A id \in DOMAIN sprites :
             /\ SameIdentity(sprites'[id], sprites[id])
             /\ SameOffsets(sprites'[id], sprites[id])
        /\ Top'.height = Top.height
        /\ Bottom'.height = Bottom.height
        /\ Left'.width = Left.width
        /\ Right'.width = Right.width]_vars

C9_Witness ==
    /\ lastOp = Op("resize", <<100, 50>>, FALSE)
    /\ _currentTime # 0
    /\ Bottom.tileX # 0
    /\ _autoUpdate
    /\ thickness = 2

\* C10: update(), called by the owner or by a frame, changes _currentTime and
\* the offset of each strip along its tiling axis, and nothing else: not the
\* positions or sizes, the cross-axis offsets, the texture, autoUpdate or the
\* registration on the ticker.
C10_UpdateFrame ==
    [][CalledUpdate(lastOp') =>
        /\ UNCHANGED <<options, refs, _autoUpdate, visible, destroyed, children,
                       textures, ticker>>
        /\ DOMAIN sprites' = DOMAIN sprites
        /\ \A id \in DOMAIN sprites :
             /\ SameIdentity(sprites'[id], sprites[id])
             /\ SameGeometry(sprites'[id], sprites[id])
        /\ Top'.tileY = Top.tileY
        /\ Bottom'.tileY = Bottom.tileY
        /\ Left'.tileX = Left.tileX
        /\ Right'.tileX = Right.tileX]_vars

C10_Witness ==
    /\ lastOp = Op("update", <<>>, FALSE)
    /\ visible
    /\ Left.tileY # 0
    /\ Left.tileX = 0
    /\ Right.tileY # 0
    /\ updates = 2

====
